---- MODULE Spec2Model ----
(***************************************************************************)
(* The external tokenizers of lang-huml (indentation, multilineStrings,    *)
(* keyToken, listMarkToken, stringToken, numberToken) and the indentation  *)
(* context tracker trackIndent, as a state machine over a source buffer.   *)
(*                                                                         *)
(* A buffer is a sequence of character codes.  Offsets are 0-based as in   *)
(* the source: offset p is buf[p + 1], and the end of input reads as -1.   *)
(***************************************************************************)
EXTENDS Integers, Sequences, FiniteSets, TLC

\* ---------------------------------------------------------------- bounds
\* Longest whitespace run of spaces at the start of a generated line.
MaxIndent == 3
\* Longest whitespace run of tabs at the start of a generated line.
MaxTabs == 1
\* Number of lines of a generated document.
MaxLines == 3
\* Number of lines of a document tokenized by two parse branches.
MaxForkLines == 2
\* Number of lines of a document of the fair specification.
MaxLiveLines == 2
\* Number of pieces a literal buffer is concatenated from.
MaxPieces == 4
\* Number of pieces a numeric literal is concatenated from.
MaxNumPieces == 4
\* Number of pieces of a numeric literal written in capitals.
MaxUpperPieces == 3
\* Number of pieces a key is concatenated from.
MaxKeyPieces == 3
\* Number of pieces after the opening quote of a string literal.
MaxStrPieces == 4
\* The length cap of the multiline scan with the cap scaled down.
MaxBody == 2
\* Number of pieces after the opening fence of a block scanned with that cap.
MaxBodyPieces == 4
\* Number of subtrees under the top node of a tree given to validateTree.
MaxEntries == 3
\* Longest indentation of the entry under a key.
MaxEntryIndent == 2
\* Number of lines after the opening fence of a generated multiline block.
MaxBlockLines == 2
\* Longest whitespace run before the first character of a block's line.
MaxFenceIndent == 2

\* ------------------------------------------------------------- constants
NEWLINE == 10
CR == 13
SPACE == 32
TAB == 9
QUOTE == 34
BACKTICK == 96
BACKSLASH == 92
DASH == 45
UNDERSCORE == 95
PLUS == 43
DOT == 46
LOWER_A == 97
LOWER_Z == 122
UPPER_A == 65
UPPER_Z == 90
DIGIT_0 == 48
DIGIT_1 == 49
DIGIT_7 == 55
DIGIT_9 == 57
LOWER_E == 101
UPPER_E == 69
LOWER_X == 120
UPPER_X == 88
LOWER_B == 98
UPPER_B == 66
LOWER_O == 111
UPPER_O == 79
LOWER_U == 117
MAX_LENGTH == 1000000
\* input.peek past the end of the buffer
EOF == -1

\* token kinds (huml-parser.terms)
Indent == "Indent"
Dedent == "Dedent"
Newline == "Newline"
Key == "Key"
ListMark == "ListMark"
StringToken == "String"
BlockString == "BlockString"
FoldedString == "FoldedString"
NumberToken == "Number"
\* a token of the grammar's own tokenizer
GrammarTerm == "Grammar"
\* the tokenizer returned without calling acceptToken
Declined == "Decline"

\* --------------------------------------------------------------- helpers
isAlpha(c) ==
  \/ (c >= LOWER_A /\ c <= LOWER_Z)
  \/ (c >= UPPER_A /\ c <= UPPER_Z)
  \/ c = UNDERSCORE

isDigit(c) == c >= DIGIT_0 /\ c <= DIGIT_9

isAlphaNum(c) == isAlpha(c) \/ isDigit(c) \/ c = DASH

isHex(c) ==
  \/ isDigit(c)
  \/ (c >= LOWER_A /\ c <= 102)
  \/ (c >= UPPER_A /\ c <= 70)

\* input.peek(k) with the stream positioned at offset p
peek(b, p, k) ==
  IF p + k >= 0 /\ p + k < Len(b) THEN b[p + k + 1] ELSE EOF

\* input.advance(n): the stream position never passes the end of the buffer
advance(b, p, n) == IF p + n > Len(b) THEN Len(b) ELSE p + n

\* input.acceptToken(kind, endOffset) with the stream positioned at ip:
\* the token ends at ip + endOffset, or at ip when endOffset is 0
\* acceptToken taking endOffset for an offset into the buffer
acceptToken_absolute(kind, ip, endOffset) ==
  [kind |-> kind, end |-> IF endOffset = 0 THEN ip ELSE endOffset,
   ipos |-> ip]

acceptToken(kind, ip, endOffset) ==
  [kind |-> kind, end |-> ip + endOffset, ipos |-> ip]

\* the tokenizer returns without a token, the stream left at ip
decline(p, ip) ==
  [kind |-> Declined, end |-> p, ipos |-> ip]

\* first offset k >= from (relative to p) whose character is not a blank
RECURSIVE skipBlanks(_, _, _)
skipBlanks(b, p, k) ==
  IF peek(b, p, k) = SPACE \/ peek(b, p, k) = TAB
  THEN skipBlanks(b, p, k + 1)
  ELSE k

\* ------------------------------------------------------- context tracker
\* the tracker without its third case: every other token counts as a Dedent
shift_twoCases(ctx, term) ==
  IF term = Indent THEN ctx + 2 ELSE ctx - 2

shift(ctx, term) ==
  IF term = Indent THEN ctx + 2
  ELSE IF term = Dedent THEN ctx - 2
  ELSE ctx

hash(ctx) == ctx

\* ------------------------------------------------------------ tokenizers
\* the tokenizer without the `stack.context > 0` test at the end of input
indentation_eofAlways(b, p, ctx) ==
  LET c == peek(b, p, 0) IN
  IF c = EOF
  THEN acceptToken(Dedent, p, 0)
  ELSE IF c # NEWLINE /\ c # CR THEN decline(p, p)
  ELSE
    LET n == skipBlanks(b, p, 1)
        spaces == n - 1
        next == peek(b, p, n)
    IN
    IF next = NEWLINE \/ next = CR \/ next = EOF
    THEN acceptToken(Newline, p, 1)
    ELSE IF spaces > ctx THEN acceptToken(Indent, p, n)
    ELSE IF spaces < ctx THEN acceptToken(Dedent, p, 0)
    ELSE acceptToken(Newline, p, n)

\* the tokenizer with `stack.context > 2` for `stack.context > 0`
indentation_eofAboveStep(b, p, ctx) ==
  LET c == peek(b, p, 0) IN
  IF c = EOF
  THEN IF ctx > 2 THEN acceptToken(Dedent, p, 0) ELSE decline(p, p)
  ELSE IF c # NEWLINE /\ c # CR THEN decline(p, p)
  ELSE
    LET n == skipBlanks(b, p, 1)
        spaces == n - 1
        next == peek(b, p, n)
    IN
    IF next = NEWLINE \/ next = CR \/ next = EOF
    THEN acceptToken(Newline, p, 1)
    ELSE IF spaces > ctx THEN acceptToken(Indent, p, n)
    ELSE IF spaces < ctx THEN acceptToken(Dedent, p, 0)
    ELSE acceptToken(Newline, p, n)

\* the tokenizer with `spaces <= stack.context` for `spaces < stack.context`
indentation_dedentAtEqual(b, p, ctx) ==
  LET c == peek(b, p, 0) IN
  IF c = EOF
  THEN IF ctx > 0 THEN acceptToken(Dedent, p, 0) ELSE decline(p, p)
  ELSE IF c # NEWLINE /\ c # CR THEN decline(p, p)
  ELSE
    LET n == skipBlanks(b, p, 1)
        spaces == n - 1
        next == peek(b, p, n)
    IN
    IF next = NEWLINE \/ next = CR \/ next = EOF
    THEN acceptToken(Newline, p, 1)
    ELSE IF spaces > ctx THEN acceptToken(Indent, p, n)
    ELSE IF spaces <= ctx THEN acceptToken(Dedent, p, 0)
    ELSE acceptToken(Newline, p, n)

\* the tokenizer taking only the terminator when the indentation is unchanged
indentation_newlineOne(b, p, ctx) ==
  LET c == peek(b, p, 0) IN
  IF c = EOF
  THEN IF ctx > 0 THEN acceptToken(Dedent, p, 0) ELSE decline(p, p)
  ELSE IF c # NEWLINE /\ c # CR THEN decline(p, p)
  ELSE
    LET n == skipBlanks(b, p, 1)
        spaces == n - 1
        next == peek(b, p, n)
    IN
    IF next = NEWLINE \/ next = CR \/ next = EOF
    THEN acceptToken(Newline, p, 1)
    ELSE IF spaces > ctx THEN acceptToken(Indent, p, n)
    ELSE IF spaces < ctx THEN acceptToken(Dedent, p, 0)
    ELSE acceptToken(Newline, p, 1)

\* the tokenizer with `spaces >= stack.context` for `spaces > stack.context`
indentation_indentAtEqual(b, p, ctx) ==
  LET c == peek(b, p, 0) IN
  IF c = EOF
  THEN IF ctx > 0 THEN acceptToken(Dedent, p, 0) ELSE decline(p, p)
  ELSE IF c # NEWLINE /\ c # CR THEN decline(p, p)
  ELSE
    LET n == skipBlanks(b, p, 1)
        spaces == n - 1
        next == peek(b, p, n)
    IN
    IF next = NEWLINE \/ next = CR \/ next = EOF
    THEN acceptToken(Newline, p, 1)
    ELSE IF spaces >= ctx THEN acceptToken(Indent, p, n)
    ELSE IF spaces < ctx THEN acceptToken(Dedent, p, 0)
    ELSE acceptToken(Newline, p, n)

\* the tokenizer consuming nothing when the indentation is unchanged
indentation_zeroNewline(b, p, ctx) ==
  LET c == peek(b, p, 0) IN
  IF c = EOF
  THEN IF ctx > 0 THEN acceptToken(Dedent, p, 0) ELSE decline(p, p)
  ELSE IF c # NEWLINE /\ c # CR THEN decline(p, p)
  ELSE
    LET n == skipBlanks(b, p, 1)
        spaces == n - 1
        next == peek(b, p, n)
    IN
    IF next = NEWLINE \/ next = CR \/ next = EOF
    THEN acceptToken(Newline, p, 1)
    ELSE IF spaces > ctx THEN acceptToken(Indent, p, n)
    ELSE IF spaces < ctx THEN acceptToken(Dedent, p, 0)
    ELSE acceptToken(Newline, p, 0)

\* the tokenizer leaving the blanks of a deeper line to the next token
indentation_indentOne(b, p, ctx) ==
  LET c == peek(b, p, 0) IN
  IF c = EOF
  THEN IF ctx > 0 THEN acceptToken(Dedent, p, 0) ELSE decline(p, p)
  ELSE IF c # NEWLINE /\ c # CR THEN decline(p, p)
  ELSE
    LET n == skipBlanks(b, p, 1)
        spaces == n - 1
        next == peek(b, p, n)
    IN
    IF next = NEWLINE \/ next = CR \/ next = EOF
    THEN acceptToken(Newline, p, 1)
    ELSE IF spaces > ctx THEN acceptToken(Indent, p, 1)
    ELSE IF spaces < ctx THEN acceptToken(Dedent, p, 0)
    ELSE acceptToken(Newline, p, n)

indentation(b, p, ctx) ==
  LET c == peek(b, p, 0) IN
  IF c = EOF
  THEN IF ctx > 0 THEN acceptToken(Dedent, p, 0) ELSE decline(p, p)
  ELSE IF c # NEWLINE /\ c # CR THEN decline(p, p)
  ELSE
    LET n == skipBlanks(b, p, 1)
        spaces == n - 1
        next == peek(b, p, n)
    IN
    IF next = NEWLINE \/ next = CR \/ next = EOF
    THEN acceptToken(Newline, p, 1)
    ELSE IF spaces > ctx THEN acceptToken(Indent, p, n)
    ELSE IF spaces < ctx THEN acceptToken(Dedent, p, 0)
    ELSE acceptToken(Newline, p, n)

\* the body loop accepting what it has read when the input ends
RECURSIVE blockBody_partialAtEof(_, _, _, _, _, _, _)
blockBody_partialAtEof(b, p, ctx, cap, start, ip, length) ==
  LET type == IF start = QUOTE THEN BlockString ELSE FoldedString
      next == peek(b, ip, 0)
  IN
  IF length >= cap THEN acceptToken(type, ip, 0)
  ELSE IF next = EOF THEN acceptToken(type, ip, 0)
  ELSE IF next = NEWLINE \/ next = CR
  THEN
    LET k == skipBlanks(b, ip + 1, 0)
        currentIndent == k
        ip2 == ip + 1 + k
    IN
    IF /\ peek(b, ip2, 0) = start
       /\ peek(b, ip2, 1) = start
       /\ peek(b, ip2, 2) = start
    THEN IF currentIndent # ctx
         THEN decline(p, ip2)
         ELSE acceptToken(type, ip2 + 3, 0)
    ELSE blockBody_partialAtEof(b, p, ctx, cap, start, ip2, length + 1 + k)
  ELSE IF next = BACKSLASH
  THEN blockBody_partialAtEof(b, p, ctx, cap, start, advance(b, ip, 2),
                              length + 2)
  ELSE blockBody_partialAtEof(b, p, ctx, cap, start, ip + 1, length + 1)

\* the body loop taking a fence at another indentation for body content
RECURSIVE blockBody_skipMisindented(_, _, _, _, _, _, _)
blockBody_skipMisindented(b, p, ctx, cap, start, ip, length) ==
  LET type == IF start = QUOTE THEN BlockString ELSE FoldedString
      next == peek(b, ip, 0)
  IN
  IF length >= cap THEN acceptToken(type, ip, 0)
  ELSE IF next = EOF THEN decline(p, ip)
  ELSE IF next = NEWLINE \/ next = CR
  THEN
    LET k == skipBlanks(b, ip + 1, 0)
        currentIndent == k
        ip2 == ip + 1 + k
    IN
    IF /\ peek(b, ip2, 0) = start
       /\ peek(b, ip2, 1) = start
       /\ peek(b, ip2, 2) = start
       /\ currentIndent = ctx
    THEN acceptToken(type, ip2 + 3, 0)
    ELSE blockBody_skipMisindented(b, p, ctx, cap, start, ip2, length + 1 + k)
  ELSE IF next = BACKSLASH
  THEN blockBody_skipMisindented(b, p, ctx, cap, start, advance(b, ip, 2),
                                 length + 2)
  ELSE blockBody_skipMisindented(b, p, ctx, cap, start, ip + 1, length + 1)

\* the body loop of multilineStrings: stream at ip, `length` counted so far
RECURSIVE blockBody(_, _, _, _, _, _, _)
blockBody(b, p, ctx, cap, start, ip, length) ==
  LET type == IF start = QUOTE THEN BlockString ELSE FoldedString
      next == peek(b, ip, 0)
  IN
  IF length >= cap THEN acceptToken(type, ip, 0)
  ELSE IF next = EOF THEN decline(p, ip)
  ELSE IF next = NEWLINE \/ next = CR
  THEN
    LET k == skipBlanks(b, ip + 1, 0)
        currentIndent == k
        ip2 == ip + 1 + k
    IN
    IF /\ peek(b, ip2, 0) = start
       /\ peek(b, ip2, 1) = start
       /\ peek(b, ip2, 2) = start
    THEN IF currentIndent # ctx
         THEN decline(p, ip2)
         ELSE acceptToken(type, ip2 + 3, 0)
    ELSE blockBody(b, p, ctx, cap, start, ip2, length + 1 + k)
  ELSE IF next = BACKSLASH
  THEN blockBody(b, p, ctx, cap, start, advance(b, ip, 2), length + 2)
  ELSE blockBody(b, p, ctx, cap, start, ip + 1, length + 1)

multilineScan(b, p, ctx, cap) ==
  LET start == peek(b, p, 0) IN
  IF start # QUOTE /\ start # BACKTICK THEN decline(p, p)
  ELSE IF peek(b, p, 1) # start \/ peek(b, p, 2) # start THEN decline(p, p)
  ELSE
    LET afterDelim == peek(b, p + 3, 0) IN
    IF afterDelim # NEWLINE /\ afterDelim # CR /\ afterDelim # EOF
    THEN decline(p, p + 3)
    ELSE blockBody(b, p, ctx, cap, start, p + 3, 0)

multilineStrings(b, p, ctx) == multilineScan(b, p, ctx, MAX_LENGTH)

\* length of the run of key characters that starts at offset p
RECURSIVE keyRun(_, _, _)
keyRun(b, p, n) ==
  IF isAlphaNum(peek(b, p, n)) THEN keyRun(b, p, n + 1) ELSE n

\* the n characters at offset p
slice(b, p, n) == [i \in 1..n |-> peek(b, p, i - 1)]

reservedWords ==
  { <<116, 114, 117, 101>>,
    <<102, 97, 108, 115, 101>>,
    <<110, 117, 108, 108>>,
    <<110, 97, 110>>,
    <<105, 110, 102>> }

\* the tokenizer comparing the beginning of the run with the reserved words
keyToken_reservedPrefix(b, p) ==
  IF ~isAlpha(peek(b, p, 0)) THEN decline(p, p)
  ELSE
    LET n == keyRun(b, p, 1) IN
    IF \E w \in reservedWords : Len(w) <= n /\ slice(b, p, Len(w)) = w
    THEN decline(p, p)
    ELSE acceptToken(Key, p, n)

keyToken(b, p) ==
  IF ~isAlpha(peek(b, p, 0)) THEN decline(p, p)
  ELSE
    LET n == keyRun(b, p, 1) IN
    IF n <= 5 /\ slice(b, p, n) \in reservedWords
    THEN decline(p, p)
    ELSE acceptToken(Key, p, n)

\* the tokenizer looking one character too far for the digit
listMarkToken_peekTwo(b, p) ==
  IF peek(b, p, 0) # DASH THEN decline(p, p)
  ELSE IF isDigit(peek(b, p, 2)) THEN decline(p, p)
  ELSE acceptToken(ListMark, p, 1)

\* the tokenizer without its look at the character after the dash
listMarkToken_anyDash(b, p) ==
  IF peek(b, p, 0) # DASH THEN decline(p, p)
  ELSE acceptToken(ListMark, p, 1)

listMarkToken(b, p) ==
  IF peek(b, p, 0) # DASH THEN decline(p, p)
  ELSE IF isDigit(peek(b, p, 1)) THEN decline(p, p)
  ELSE acceptToken(ListMark, p, 1)

simpleEscapes == {QUOTE, BACKSLASH, 47, 98, 102, 110, 114, 116}

\* the body loop taking any character after a backslash for an escape
RECURSIVE stringBody_anyEscape(_, _, _)
stringBody_anyEscape(b, p, n) ==
  LET next == peek(b, p, n) IN
  IF next = EOF THEN decline(p, p)
  ELSE IF next = NEWLINE \/ next = CR THEN decline(p, p)
  ELSE IF next = QUOTE /\ peek(b, p, n - 1) # BACKSLASH
  THEN acceptToken(StringToken, p, n + 1)
  ELSE IF next = BACKSLASH
  THEN
    LET esc == peek(b, p, n + 1) IN
    IF esc = EOF THEN decline(p, p)
    ELSE stringBody_anyEscape(b, p, n + 2)
  ELSE stringBody_anyEscape(b, p, n + 1)

RECURSIVE stringBody(_, _, _)
stringBody(b, p, n) ==
  LET next == peek(b, p, n) IN
  IF next = EOF THEN decline(p, p)
  ELSE IF next = NEWLINE \/ next = CR THEN decline(p, p)
  ELSE IF next = QUOTE /\ peek(b, p, n - 1) # BACKSLASH
  THEN acceptToken(StringToken, p, n + 1)
  ELSE IF next = BACKSLASH
  THEN
    LET esc == peek(b, p, n + 1) IN
    IF esc = EOF THEN decline(p, p)
    ELSE IF esc = LOWER_U
    THEN IF \A i \in 0..3 : isHex(peek(b, p, n + 2 + i))
         THEN stringBody(b, p, n + 6)
         ELSE decline(p, p)
    ELSE IF esc \in simpleEscapes
    THEN stringBody(b, p, n + 2)
    ELSE decline(p, p)
  ELSE stringBody(b, p, n + 1)

stringToken(b, p) ==
  IF peek(b, p, 0) # QUOTE THEN decline(p, p)
  ELSE stringBody(b, p, 1)

\* while (isHex(peek(pos)) || peek(pos) === UNDERSCORE) pos++
RECURSIVE hexRun(_, _, _)
hexRun(b, p, n) ==
  IF isHex(peek(b, p, n)) \/ peek(b, p, n) = UNDERSCORE
  THEN hexRun(b, p, n + 1)
  ELSE n

\* the digit loop stopping at a digit of another base and accepting what it
\* has read
RECURSIVE baseRun_truncate(_, _, _, _, _)
baseRun_truncate(b, p, n, hi, valid) ==
  LET d == peek(b, p, n) IN
  IF d >= DIGIT_0 /\ d <= hi THEN baseRun_truncate(b, p, n + 1, hi, TRUE)
  ELSE IF d = UNDERSCORE THEN baseRun_truncate(b, p, n + 1, hi, valid)
  ELSE IF valid THEN acceptToken(NumberToken, p, n)
  ELSE decline(p, p)

\* the digit loop of the octal (hi = DIGIT_7) and binary (hi = DIGIT_1) modes
RECURSIVE baseRun(_, _, _, _, _)
baseRun(b, p, n, hi, valid) ==
  LET d == peek(b, p, n) IN
  IF d >= DIGIT_0 /\ d <= hi THEN baseRun(b, p, n + 1, hi, TRUE)
  ELSE IF d = UNDERSCORE THEN baseRun(b, p, n + 1, hi, valid)
  ELSE IF isDigit(d) THEN decline(p, p)
  ELSE IF valid THEN acceptToken(NumberToken, p, n)
  ELSE decline(p, p)

\* while (isDigit(peek(pos)) || peek(pos) === UNDERSCORE) pos++
RECURSIVE digitRun(_, _, _)
digitRun(b, p, n) ==
  IF isDigit(peek(b, p, n)) \/ peek(b, p, n) = UNDERSCORE
  THEN digitRun(b, p, n + 1)
  ELSE n

\* the decimal mode accepting the mantissa when the exponent has no digit
decimal_mantissaOnly(b, p, n0) ==
  LET n1 == digitRun(b, p, n0)
      intDigit == \E i \in n0..(n1 - 1) : isDigit(peek(b, p, i))
      hasDot == peek(b, p, n1) = DOT
      fracDigit == hasDot /\ isDigit(peek(b, p, n1 + 1))
      n2 == IF ~hasDot THEN n1
            ELSE IF fracDigit THEN digitRun(b, p, n1 + 1)
            ELSE n1 + 1
      hasDigit == intDigit \/ fracDigit
      e == peek(b, p, n2)
  IN
  IF e = LOWER_E \/ e = UPPER_E
  THEN
    IF ~hasDigit THEN decline(p, p)
    ELSE
      LET sign == peek(b, p, n2 + 1)
          n3 == IF sign = PLUS \/ sign = DASH THEN n2 + 2 ELSE n2 + 1
      IN
      IF ~isDigit(peek(b, p, n3)) THEN acceptToken(NumberToken, p, n2)
      ELSE acceptToken(NumberToken, p, digitRun(b, p, n3))
  ELSE IF hasDigit THEN acceptToken(NumberToken, p, n2)
  ELSE decline(p, p)

decimal(b, p, n0) ==
  LET n1 == digitRun(b, p, n0)
      intDigit == \E i \in n0..(n1 - 1) : isDigit(peek(b, p, i))
      hasDot == peek(b, p, n1) = DOT
      fracDigit == hasDot /\ isDigit(peek(b, p, n1 + 1))
      n2 == IF ~hasDot THEN n1
            ELSE IF fracDigit THEN digitRun(b, p, n1 + 1)
            ELSE n1 + 1
      hasDigit == intDigit \/ fracDigit
      e == peek(b, p, n2)
  IN
  IF e = LOWER_E \/ e = UPPER_E
  THEN
    IF ~hasDigit THEN decline(p, p)
    ELSE
      LET sign == peek(b, p, n2 + 1)
          n3 == IF sign = PLUS \/ sign = DASH THEN n2 + 2 ELSE n2 + 1
      IN
      IF ~isDigit(peek(b, p, n3)) THEN decline(p, p)
      ELSE acceptToken(NumberToken, p, digitRun(b, p, n3))
  ELSE IF hasDigit THEN acceptToken(NumberToken, p, n2)
  ELSE decline(p, p)

numberToken(b, p) ==
  LET c0 == peek(b, p, 0)
      n0 == IF c0 = PLUS \/ c0 = DASH THEN 1 ELSE 0
      c == peek(b, p, n0)
      next == peek(b, p, n0 + 1)
  IN
  IF ~isDigit(c) THEN decline(p, p)
  ELSE IF c = DIGIT_0 /\ (next = LOWER_X \/ next = UPPER_X)
  THEN IF ~isHex(peek(b, p, n0 + 2)) THEN decline(p, p)
       ELSE acceptToken(NumberToken, p, hexRun(b, p, n0 + 2))
  ELSE IF c = DIGIT_0 /\ (next = LOWER_O \/ next = UPPER_O)
  THEN baseRun(b, p, n0 + 2, DIGIT_7, FALSE)
  ELSE IF c = DIGIT_0 /\ (next = LOWER_B \/ next = UPPER_B)
  THEN baseRun(b, p, n0 + 2, DIGIT_1, FALSE)
  ELSE decimal(b, p, n0)

\* ------------------------------------------------------------- validator
\* A tree is the sequence of its nodes in preorder; a node names its parent
\* (0 for the top node) and the span of the input it covers.
containerNames ==
  {"DictBlockContent", "InlineDict", "RootInlineDict", "Document",
   "Properties"}

entryNames == {"Property", "DictPair"}

\* the walk taking every node below node i for a child of it
childrenOf_descendants(t, i) ==
  LET RECURSIVE below(_)
      below(j) == j # 0 /\ (t[j].parent = i \/ below(t[j].parent))
  IN SelectSeq([k \in 1..Len(t) |-> k], LAMBDA j : below(j))

\* the children of node i, in order: firstChild and its nextSiblings
childrenOf(t, i) ==
  SelectSeq([k \in 1..Len(t) |-> k], LAMBDA j : t[j].parent = i)

\* node.firstChild, 0 for null
firstChild(t, i) ==
  IF childrenOf(t, i) = <<>> THEN 0 ELSE Head(childrenOf(t, i))

\* input.slice(keyNode.from, keyNode.to)
keyTextOf(t, b, keyNode) ==
  slice(b, t[keyNode].from, t[keyNode].to - t[keyNode].from)

\* the loop over the children of a container, `kids` still to come
RECURSIVE scanChildren(_, _, _, _, _)
scanChildren(t, b, kids, seenKeys, errs) ==
  IF kids = <<>> THEN errs
  ELSE
    LET child == Head(kids)
        keyNode == firstChild(t, child)
    IN
    IF /\ t[child].name \in entryNames
       /\ keyNode # 0
       /\ t[keyNode].name \in {Key, StringToken}
    THEN
      LET keyText == keyTextOf(t, b, keyNode) IN
      IF keyText \in seenKeys
      THEN scanChildren(t, b, Tail(kids), seenKeys,
                        Append(errs, [key |-> keyText,
                                      position |-> t[keyNode].from]))
      ELSE scanChildren(t, b, Tail(kids), seenKeys \cup {keyText}, errs)
    ELSE scanChildren(t, b, Tail(kids), seenKeys, errs)

\* the callback of iterate for node i: `errs` with what it pushes
visitNode(t, b, i, errs) ==
  IF t[i].name \in containerNames
  THEN scanChildren(t, b, childrenOf(t, i), {}, errs)
  ELSE errs

\* ---------------------------------------------------------------- inputs
run(ch, k) == [i \in 1..k |-> ch]

\* the whitespace runs a generated line starts with
blankRuns ==
  {run(SPACE, k) : k \in 0..MaxIndent} \cup {run(TAB, k) : k \in 1..MaxTabs}

\* a line is written with the terminator that ends the line before it:
\* a terminator, a run of blanks and a key
keyLines ==
  {<<t>> \o w \o <<LOWER_A>> : t \in {NEWLINE, CR}, w \in blankRuns}

\* a terminator and nothing but (perhaps) a blank after it
blankLines ==
  {<<t>> \o w : t \in {NEWLINE, CR}, w \in {<<>>, <<SPACE>>}}

lineSet == keyLines \cup blankLines

\* the lines that end in LF and are indented with spaces
lfLines ==
  {l \in lineSet : l[1] = NEWLINE /\ \A i \in DOMAIN l : l[i] # TAB}

\* the buffers of at most n lines out of `lines`
RECURSIVE documentsOf(_, _)
documentsOf(lines, n) ==
  IF n = 0 THEN {<<>>}
  ELSE LET d == documentsOf(lines, n - 1) IN
       d \cup {x \o l : x \in d, l \in lines}

documents(n) == documentsOf(lineSet, n)

\* the pieces a literal buffer is concatenated from
pieces ==
  { <<QUOTE, QUOTE, QUOTE>>, <<BACKTICK, BACKTICK, BACKTICK>>,
    <<QUOTE>>, <<NEWLINE>>, <<SPACE>>, <<SPACE, SPACE>>, <<BACKSLASH>>,
    <<DASH>>, <<DIGIT_1>>, <<LOWER_A>> }

RECURSIVE literals(_)
literals(n) ==
  IF n = 0 THEN {<<>>}
  ELSE LET d == literals(n - 1) IN
       d \cup {x \o l : x \in d, l \in pieces}

fence(c) == <<c, c, c>>

\* what comes before a multiline block: the blank after a key's indicator
\* (context 0) or the first indented line of a block (context 2)
blockPrefixes == {<<SPACE>>, <<NEWLINE, SPACE, SPACE>>}

\* a line inside a multiline block: terminator, blanks and a fence, a
\* character or a backslash
blockLines ==
  {<<NEWLINE>> \o run(SPACE, k) \o c :
     k \in 0..MaxFenceIndent,
     c \in {fence(QUOTE), fence(BACKTICK), <<LOWER_A>>, <<BACKSLASH>>}}

\* an opening fence and up to n lines, or a character right after the fence
blocks(n) ==
  {x \o fence(c) \o d :
     x \in blockPrefixes, c \in {QUOTE, BACKTICK},
     d \in documentsOf(blockLines, n)
           \cup {<<LOWER_A>> \o l : l \in blockLines}}

\* the pieces a numeric literal is concatenated from
numberPieces ==
  { <<DASH>>, <<DIGIT_0, LOWER_X>>, <<DIGIT_0, LOWER_O>>,
    <<DIGIT_0, LOWER_B>>, <<DIGIT_1>>, <<DIGIT_7>>, <<DIGIT_9>>,
    <<UNDERSCORE>>, <<DOT>>, <<LOWER_E>> }

\* the pieces of the literals written with a leading zero and capitals
upperPieces ==
  { <<DIGIT_0>>, <<UPPER_X>>, <<UPPER_O>>, <<UPPER_B>>, <<UPPER_E>>,
    <<DIGIT_1>>, <<DIGIT_9>> }

\* the words for not-a-number and infinity
specialWords == {<<110, 97, 110>>, <<105, 110, 102>>}

\* numeric literals, well-formed or not: up to n pieces, or a plus sign and
\* up to n - 1 pieces; literals in capitals; and the special words, bare,
\* signed or after a blank
numerals(n) ==
  documentsOf(numberPieces, n)
    \cup {<<PLUS>> \o x : x \in documentsOf(numberPieces, n - 1)}
    \cup documentsOf(upperPieces, MaxUpperPieces)
    \cup {x \o w : x \in {<<>>, <<PLUS>>, <<DASH>>, <<SPACE>>},
                    w \in specialWords}

\* the pieces a key is concatenated from: beginnings and last letters of the
\* reserved words, a capital, and the other key characters and a blank
keyPieces ==
  { <<116, 114, 117>>, <<LOWER_E>>, <<110, 117, 108>>, <<108>>,
    <<102, 97, 108, 115>>, <<110, 97>>, <<110>>, <<105, 110>>, <<102>>,
    <<84, 114, 117>>, <<DASH>>, <<DIGIT_1>>, <<UNDERSCORE>>, <<SPACE>> }

keys(n) == documentsOf(keyPieces, n)

\* the pieces the body of a string literal is concatenated from: a quote, a
\* backslash, the beginning of a unicode escape, hex digits, the letter of a
\* simple escape, a letter that is neither, a terminator and a blank
stringPieces ==
  { <<QUOTE>>, <<BACKSLASH>>, <<BACKSLASH, LOWER_U>>,
    <<DIGIT_1, DIGIT_1, DIGIT_1>>, <<DIGIT_1>>, <<110>>, <<LOWER_X>>,
    <<NEWLINE>>, <<SPACE>> }

\* an opening quote and up to n pieces
strings(n) == {<<QUOTE>> \o x : x \in documentsOf(stringPieces, n)}

\* the indicator between a key and its value
COLON == 58

\* a key with a block under it: `a`, the indicator, a terminator, k blanks and
\* the entry `b: 1`
entryUnderKey(ind, t, k) ==
  <<LOWER_A>> \o ind \o <<t>> \o run(SPACE, k)
    \o <<LOWER_B, COLON, SPACE, DIGIT_1>>

entries(n) ==
  {entryUnderKey(ind, t, k) :
     ind \in {<<COLON>>, <<COLON, COLON>>}, t \in {NEWLINE, CR}, k \in 0..n}

\* the pieces of the body of a block that has no closing fence
bodyPieces == {<<NEWLINE>>, <<SPACE>>, <<BACKSLASH>>, <<LOWER_A>>}

\* a blank, an opening fence and a body of up to n pieces
openBlocks(n) ==
  {<<SPACE>> \o fence(c) \o x :
     c \in {QUOTE, BACKTICK}, x \in documentsOf(bodyPieces, n)}

\* the input the trees are over: the keys `a`, `a` and `b`
keyInput == <<LOWER_A, LOWER_A, LOWER_B>>

treeNode(n, par, f, t) == [name |-> n, parent |-> par, from |-> f, to |-> t]

\* an entry and its key: the key at offset p of the input
keyedEntry(e, k, p) == <<treeNode(e, 0, p, p + 1), treeNode(k, 1, p, p + 1)>>

\* the nodes x followed by the subtree `sub`, its top node under node
\* `under` of x
graft(x, sub, under) ==
  x \o [i \in 1..Len(sub) |->
          [sub[i] EXCEPT !.parent = IF @ = 0 THEN under ELSE @ + Len(x)]]

\* the node c with the two entries e1 and e2 under it, itself under node 1
\* of x
withPair(x, c, e1, e2) ==
  LET y == x \o <<treeNode(c, 1, 0, 3)>> IN
  graft(graft(y, e1, Len(y)), e2, Len(y))

\* what stands under a container, each a subtree whose top node has parent
\* 0: entries with a Key or a String, an entry whose first child is no key,
\* an entry without children, entries whose value is a container or a list
\* with the keys `a`, `a`, and a node that is no entry over a container
\* with the keys `a`, `b`
entryShapes ==
  {keyedEntry("Property", Key, p) : p \in 0..2}
    \cup {keyedEntry("DictPair", Key, 0), keyedEntry("DictPair", Key, 2),
          keyedEntry("Property", StringToken, 1),
          <<treeNode("Property", 0, 0, 1), treeNode("Value", 1, 0, 0),
            treeNode(Key, 1, 0, 1)>>,
          <<treeNode("Property", 0, 0, 0)>>}
    \cup {withPair(keyedEntry("Property", Key, 0), c,
                   keyedEntry("Property", Key, 0),
                   keyedEntry("Property", Key, 1)) :
          c \in {"DictBlockContent", "Properties", "List"}}
    \cup {withPair(<<treeNode("Value", 0, 0, 3)>>, c,
                   keyedEntry("DictPair", Key, 0),
                   keyedEntry("DictPair", Key, 2)) :
          c \in {"InlineDict", "RootInlineDict"}}

\* the trees with the top node `root` and up to n subtrees under it
RECURSIVE treesOf(_, _)
treesOf(root, n) ==
  IF n = 0 THEN {<<treeNode(root, 0, 0, 3)>>}
  ELSE LET d == treesOf(root, n - 1) IN
       d \cup {graft(x, e, 1) : x \in d, e \in entryShapes}

trees(n) == treesOf("Document", n) \cup treesOf("List", n)

\* ----------------------------------------------------------------- state
VARIABLES
  buf,       \* the source buffer
  active,    \* the parse branches (stacks) that exist
  pos,       \* pos[s]: stack.pos of branch s
  context,   \* context[s]: stack.context of branch s
  tok,       \* tok[s]: outcome of the last tokenizer run for branch s
  tokens,    \* tokens[s]: the tokens branch s has shifted, in order
  inputPos,  \* where the last tokenizer run left the shared input stream
  tree,      \* the syntax tree validateTree is given: its nodes in preorder
  cursor,    \* the node tree.cursor().iterate() calls back for next
  errors     \* validateTree's `errors`, in the order they were pushed

vars == <<buf, active, pos, context, tok, tokens, inputPos,
          tree, cursor, errors>>

\* the variables of validateTree, which no tokenizer touches
treeVars == <<tree, cursor, errors>>

Branches == {"main", "fork"}

NoToken == [kind |-> "None", start |-> 0, end |-> 0]

\* one counter for all branches in place of each stack's own context
stackContext_oneCounter(s) == context["main"]

\* stack.context as a tokenizer running for branch s reads it
stackContext(s) == context[s]

\* a tokenizer may run for s: no accepted token is waiting to be shifted
canScan(s) == s \in active /\ tok[s].kind \in {"None", Declined}

\* an accepted token is waiting to be shifted
pending(s) == s \in active /\ tok[s].kind \notin {"None", Declined}

\* the parser ran a tokenizer for s, the stream reset to pos[s], with result r
ran(s, r) ==
  /\ tok' = [tok EXCEPT ![s] =
       [kind |-> r.kind, start |-> pos[s], end |-> r.end]]
  /\ inputPos' = r.ipos
  /\ UNCHANGED <<buf, active, pos, context, tokens>>
  /\ UNCHANGED treeVars

ScanIndentation(s) ==
  /\ canScan(s)
  /\ ran(s, indentation(buf, pos[s], stackContext(s)))

ScanMultiline(s) ==
  /\ canScan(s)
  /\ ran(s, multilineStrings(buf, pos[s], stackContext(s)))

\* multilineStrings with the cap MaxBody in place of MAX_LENGTH
ScanCapped(s) ==
  /\ canScan(s)
  /\ ran(s, multilineScan(buf, pos[s], stackContext(s), MaxBody))

ScanKey(s) ==
  /\ canScan(s)
  /\ ran(s, keyToken(buf, pos[s]))

ScanListMark(s) ==
  /\ canScan(s)
  /\ ran(s, listMarkToken(buf, pos[s]))

ScanString(s) ==
  /\ canScan(s)
  /\ ran(s, stringToken(buf, pos[s]))

ScanNumber(s) ==
  /\ canScan(s)
  /\ ran(s, numberToken(buf, pos[s]))

\* characters the grammar's own tokenizer takes: the blanks it skips and the
\* indicators `:` and `::`
grammarChars == {SPACE, TAB, COLON}

\* length of the grammar's token at offset p: `::` is one token
grammarLength(b, p) ==
  IF peek(b, p, 0) = COLON /\ peek(b, p, 1) = COLON THEN 2 ELSE 1

GrammarToken(s) ==
  /\ canScan(s)
  /\ peek(buf, pos[s], 0) \in grammarChars
  /\ ran(s, acceptToken(GrammarTerm, pos[s], grammarLength(buf, pos[s])))

\* the shift writing the tracker's result to every branch
Shift_sharedContext(s) ==
  /\ pending(s)
  /\ pos' = [pos EXCEPT ![s] = tok[s].end]
  /\ context' = [t \in Branches |-> shift(context[s], tok[s].kind)]
  /\ tokens' = [tokens EXCEPT ![s] =
       Append(@, [kind |-> tok[s].kind, start |-> tok[s].start,
                  end |-> tok[s].end,
                  context |-> shift(context[s], tok[s].kind)])]
  /\ tok' = [tok EXCEPT ![s] = NoToken]
  /\ UNCHANGED <<buf, active, inputPos>>
  /\ UNCHANGED treeVars

\* the parser shifts the accepted token: the stack moves to the token's end
\* and the tracker computes the branch's next context
Shift(s) ==
  /\ pending(s)
  /\ pos' = [pos EXCEPT ![s] = tok[s].end]
  /\ context' = [context EXCEPT ![s] = shift(context[s], tok[s].kind)]
  /\ tokens' = [tokens EXCEPT ![s] =
       Append(@, [kind |-> tok[s].kind, start |-> tok[s].start,
                  end |-> tok[s].end,
                  context |-> shift(context[s], tok[s].kind)])]
  /\ tok' = [tok EXCEPT ![s] = NoToken]
  /\ UNCHANGED <<buf, active, inputPos>>
  /\ UNCHANGED treeVars

\* the parser splits the main stack: the new branch starts as a copy
Fork ==
  /\ active = {"main"}
  /\ active' = Branches
  /\ pos' = [s \in Branches |-> pos["main"]]
  /\ context' = [s \in Branches |-> context["main"]]
  /\ tok' = [s \in Branches |-> tok["main"]]
  /\ tokens' = [s \in Branches |-> tokens["main"]]
  /\ UNCHANGED <<buf, inputPos>>
  /\ UNCHANGED treeVars

start == 0

\* the parser abandons the forked branch and its copy of the context
Abandon ==
  /\ active = Branches
  /\ active' = {"main"}
  /\ pos' = [pos EXCEPT !["fork"] = 0]
  /\ context' = [context EXCEPT !["fork"] = start]
  /\ tok' = [tok EXCEPT !["fork"] = NoToken]
  /\ tokens' = [tokens EXCEPT !["fork"] = <<>>]
  /\ UNCHANGED <<buf, inputPos>>
  /\ UNCHANGED treeVars

\* tree.cursor().iterate(): the callback runs for the next node in preorder
Visit ==
  /\ cursor \in 1..Len(tree)
  /\ errors' = visitNode(tree, buf, cursor, errors)
  /\ cursor' = cursor + 1
  /\ UNCHANGED <<buf, active, pos, context, tok, tokens, inputPos, tree>>

\* the parse stacks before the first token
InitStacks ==
  /\ active = {"main"}
  /\ pos = [s \in Branches |-> 0]
  /\ context = [s \in Branches |-> start]
  /\ tok = [s \in Branches |-> NoToken]
  /\ tokens = [s \in Branches |-> <<>>]
  /\ inputPos = 0

\* tokenizing: there is no tree yet and validateTree is not running
InitBranches ==
  /\ InitStacks
  /\ tree = <<>>
  /\ cursor = 0
  /\ errors = <<>>

Init == buf \in documents(MaxLines) /\ InitBranches

InitLit == buf \in literals(MaxPieces) /\ InitBranches

InitFork == buf \in documentsOf(lfLines, MaxForkLines) /\ InitBranches

InitLive == buf \in documents(MaxLiveLines) /\ InitBranches

InitBlock == buf \in blocks(MaxBlockLines) /\ InitBranches

InitNum == buf \in numerals(MaxNumPieces) /\ InitBranches

InitKey == buf \in keys(MaxKeyPieces) /\ InitBranches

InitStr == buf \in strings(MaxStrPieces) /\ InitBranches

InitEntry == buf \in entries(MaxEntryIndent) /\ InitBranches

InitCap == buf \in openBlocks(MaxBodyPieces) /\ InitBranches

\* validateTree(tree, input) is called: `errors` is empty and the cursor is
\* at the top node
InitValidate ==
  /\ buf = keyInput
  /\ InitStacks
  /\ tree \in trees(MaxEntries)
  /\ cursor = 1
  /\ errors = <<>>

Step(s) ==
  \/ ScanIndentation(s)
  \/ ScanMultiline(s)
  \/ ScanKey(s)
  \/ ScanListMark(s)
  \/ ScanString(s)
  \/ ScanNumber(s)
  \/ GrammarToken(s)
  \/ Shift(s)

Next == \E s \in Branches : Step(s)

StepCapped(s) ==
  \/ ScanIndentation(s)
  \/ ScanCapped(s)
  \/ ScanKey(s)
  \/ ScanListMark(s)
  \/ ScanString(s)
  \/ ScanNumber(s)
  \/ GrammarToken(s)
  \/ Shift(s)

NextCapped == \E s \in Branches : StepCapped(s)

NextFork == Next \/ Fork \/ Abandon

\* documents, one parse branch
Spec == Init /\ [][Next]_vars

\* the same documents and steps, for the claims about the tokens a branch
\* has been given
HistorySpec == Init /\ [][Next]_vars

\* literal buffers, one parse branch
LitSpec == InitLit /\ [][Next]_vars

\* documents of LF lines, the parser forks and abandons a second branch
ForkSpec == InitFork /\ [][NextFork]_vars

\* multiline blocks, one parse branch
BlockSpec == InitBlock /\ [][Next]_vars

\* numeric literals, one parse branch
NumSpec == InitNum /\ [][Next]_vars

\* keys and reserved words, one parse branch
KeySpec == InitKey /\ [][Next]_vars

\* string literals, one parse branch
StrSpec == InitStr /\ [][Next]_vars

\* blocks without a closing fence, scanned with the cap scaled down
CapSpec == InitCap /\ [][NextCapped]_vars

\* validateTree over a tree
ValidateSpec == InitValidate /\ [][Visit]_vars

\* a key and the entry under it, one parse branch
EntrySpec == InitEntry /\ [][Next]_vars

\* documents; the parser keeps asking the line-boundary tokenizer for a token
\* and shifts every token it accepts
LiveSpec ==
  /\ InitLive
  /\ [][Next]_vars
  /\ \A s \in Branches :
       /\ WF_vars(ScanIndentation(s))
       /\ WF_vars(ScanKey(s))
       /\ WF_vars(GrammarToken(s))
       /\ WF_vars(Shift(s))

\* ------------------------------------------------------------ properties
Last(q) == q[Len(q)]

isTerminator(c) == c = NEWLINE \/ c = CR

isBlank(c) == c = SPACE \/ c = TAB

\* the number of blanks that follow the character at offset p
blanksAfter(p) ==
  CHOOSE k \in 0..Len(buf) :
    /\ \A i \in 1..k : isBlank(peek(buf, p, i))
    /\ ~isBlank(peek(buf, p, k + 1))

\* the character after the blanks that follow offset p
afterBlanks(p) == peek(buf, p, blanksAfter(p) + 1)

\* C1: from context 0, whatever tokens the line-boundary tokenizer accepts
\* and the tracker consumes, the context of a branch is never negative and
\* never odd.
C1_ContextEvenNonNegative ==
  \A s \in active : context[s] >= 0 /\ context[s] % 2 = 0

\* two nested blocks were opened and one of them closed again
C1_Witness ==
  \E i \in DOMAIN tokens["main"] :
    /\ tokens["main"][i].kind = Dedent
    /\ tokens["main"][i].context = 2
    /\ context["main"] = 0

\* the step shifts a token on branch s
shifts(s) == Len(tokens'[s]) = Len(tokens[s]) + 1

\* C2: shifting a token changes the context by +2 for Indent, by -2 for
\* Dedent and by nothing for any other token; a step that shifts nothing on
\* a branch (a tokenizer run, accepting or declining) leaves its context.
C2_ShiftDelta ==
  [][\A s \in active :
       IF shifts(s)
       THEN context'[s] - context[s] =
              (IF tok[s].kind = Indent THEN 2
               ELSE IF tok[s].kind = Dedent THEN 0 - 2
               ELSE 0)
       ELSE context'[s] = context[s]]_vars

\* an Indent, a Key and a Dedent were shifted, and a tokenizer declined
C2_Witness ==
  /\ \E i \in DOMAIN tokens["main"] : tokens["main"][i].kind = Indent
  /\ \E i \in DOMAIN tokens["main"] : tokens["main"][i].kind = Key
  /\ \E i \in DOMAIN tokens["main"] : tokens["main"][i].kind = Dedent
  /\ tok["main"].kind = Declined

atEOF(s) == pos[s] = Len(buf)

\* the tokens branch s shifted at the end of input
eofTokens(s) == {i \in DOMAIN tokens[s] : tokens[s][i].start = Len(buf)}

\* the context with which branch s arrived at the end of input
arrivalContext(s) ==
  LET k == Cardinality(DOMAIN tokens[s] \ eofTokens(s)) IN
  IF k = 0 THEN start ELSE tokens[s][k].context

\* what holds of branch s at the end of input
eofDedents(s) ==
  /\ (pending(s) /\ tok[s].start = Len(buf)) =>
       /\ tok[s].kind = Dedent
       /\ tok[s].end = tok[s].start
       /\ context[s] > 0
  /\ \A i \in eofTokens(s) :
       tokens[s][i].kind = Dedent /\ tokens[s][i].end = tokens[s][i].start
  /\ atEOF(s) =>
       context[s] = arrivalContext(s) - 2 * Cardinality(eofTokens(s))
  /\ (atEOF(s) /\ context[s] = 0) => ~pending(s)

\* C3: at the end of input every token is a zero-width Dedent, accepted only
\* while the context is positive; the Dedents shifted there account for the
\* context the branch arrived with, two each; and a parser that keeps asking
\* and shifting ends with context 0 and no further token.
C3_EofDedents ==
  /\ [](\A s \in active : eofDedents(s))
  /\ <>[](atEOF("main") /\ context["main"] = 0 /\ ~pending("main"))

\* two Dedents were shifted at the end of input and the context is back at 0
C3_Witness ==
  /\ atEOF("main")
  /\ context["main"] = 0
  /\ Cardinality(eofTokens("main")) = 2

\* branch s holds a token accepted at the terminator of a line that is not
\* blank
lineToken(s) ==
  /\ pending(s)
  /\ isTerminator(peek(buf, tok[s].start, 0))
  /\ afterBlanks(tok[s].start) \notin {NEWLINE, CR, EOF}

\* the last token branch s shifted is a Dedent accepted where s still is
dedentedHere(s) ==
  /\ tokens[s] # <<>>
  /\ Last(tokens[s]).kind = Dedent
  /\ Last(tokens[s]).start = pos[s]

\* C4 as claimed: a Dedent at a line is zero-width and accepted with
\* spaces < context, and the token that follows the Dedents of a line is
\* accepted with the context equal to the line's blanks.
C4_DedentsEndAtSpaces ==
  \A s \in active :
    lineToken(s) =>
      LET spaces == blanksAfter(tok[s].start) IN
      /\ tok[s].kind = Dedent =>
           tok[s].end = tok[s].start /\ spaces < context[s]
      /\ (dedentedHere(s) /\ tok[s].kind # Dedent) => spaces = context[s]

\* C4 (amended): at a line with spaces < context the tokenizer accepts a
\* zero-width Dedent, and only then; the token that follows the Dedents of a
\* line is accepted with context <= spaces <= context + 1 and takes the
\* terminator and the blanks: a Newline when spaces = context, an Indent when
\* the line has one blank more than the context.
C4_DedentsEndAtOrBelowSpaces ==
  \A s \in active :
    lineToken(s) =>
      LET spaces == blanksAfter(tok[s].start) IN
      /\ tok[s].kind = Dedent <=> spaces < context[s]
      /\ tok[s].kind = Dedent => tok[s].end = tok[s].start
      /\ (dedentedHere(s) /\ tok[s].kind # Dedent) =>
           /\ context[s] <= spaces
           /\ spaces <= context[s] + 1
           /\ tok[s].end = tok[s].start + 1 + spaces
           /\ tok[s].kind = (IF spaces = context[s] THEN Newline ELSE Indent)

\* after two Dedents at one line, an Indent takes the line's odd indentation
C4_Witness ==
  /\ lineToken("main")
  /\ dedentedHere("main")
  /\ tok["main"].kind = Indent
  /\ Len(tokens["main"]) >= 2
  /\ tokens["main"][Len(tokens["main"]) - 1].kind = Dedent
  /\ tokens["main"][Len(tokens["main"]) - 1].start = pos["main"]

complete(s) == atEOF(s) /\ ~pending(s) /\ context[s] = 0

\* offset p is the first character of a line terminator: LF, CR or CR LF
startsTerminator(p) ==
  /\ isTerminator(peek(buf, p, 0))
  /\ ~(peek(buf, p, 0) = NEWLINE /\ peek(buf, p, 0 - 1) = CR)

\* offset of the last character of the line terminator that starts at p
terminatorEnd(p) ==
  IF peek(buf, p, 0) = CR /\ peek(buf, p, 1) = NEWLINE THEN p + 1 ELSE p

\* the lines of the buffer that hold nothing but blanks
blankLinesOf ==
  {p \in 0..(Len(buf) - 1) :
     /\ startsTerminator(p)
     /\ afterBlanks(terminatorEnd(p)) \in {NEWLINE, CR, EOF}}

\* token i of branch s was accepted by the blank-line rule
blankNewline(s, i) ==
  /\ tokens[s][i].kind = Newline
  /\ afterBlanks(tokens[s][i].start) \in {NEWLINE, CR, EOF}

\* the context before token i of branch s was shifted
contextBefore(s, i) == IF i = 1 THEN start ELSE tokens[s][i - 1].context

\* C6: a Newline accepted at a blank line takes one character and leaves the
\* context, and a buffer with K blank lines yields K such Newline tokens,
\* whether its lines end in LF, CR or CR LF.
C6_BlankLineNewlines ==
  \A s \in active :
    /\ \A i \in DOMAIN tokens[s] :
         blankNewline(s, i) =>
           /\ tokens[s][i].end = tokens[s][i].start + 1
           /\ tokens[s][i].context = contextBefore(s, i)
    /\ complete(s) =>
         Cardinality({i \in DOMAIN tokens[s] : blankNewline(s, i)})
           = Cardinality(blankLinesOf)

\* C7: the tokens a branch shifted lie end to end from offset 0 up to the
\* branch's position, each with start <= end; the outcome of a tokenizer run
\* starts where the run was asked for; and the position is the end of the
\* last shifted token, so a tokenizer that declines moved nothing, wherever
\* it left the input stream.
C7_SpansPartition ==
  \A s \in active :
    /\ \A i \in DOMAIN tokens[s] :
         /\ tokens[s][i].start <= tokens[s][i].end
         /\ tokens[s][i].end <= Len(buf)
         /\ tokens[s][i].start = (IF i = 1 THEN 0 ELSE tokens[s][i - 1].end)
    /\ pos[s] = (IF tokens[s] = <<>> THEN 0 ELSE Last(tokens[s]).end)
    /\ tok[s].kind # "None" =>
         tok[s].start = pos[s] /\ tok[s].start <= tok[s].end

\* after a token was shifted, a tokenizer advanced the stream and declined
C7_Witness ==
  /\ tokens["main"] # <<>>
  /\ pos["main"] > 0
  /\ tok["main"].kind = Declined
  /\ inputPos > pos["main"]

isPrefix(x, y) == Len(x) <= Len(y) /\ \A i \in DOMAIN x : x[i] = y[i]

C9_ContextPerBranch ==
  /\ [](\A x \in active : \A y \in active :
          hash(context[x]) = hash(context[y]) <=> context[x] = context[y])
  /\ [][active' = active =>
          \A s \in active : ~shifts(s) => context'[s] = context[s]]_vars

\* both branches shifted tokens and are in different contexts
C9_Witness ==
  /\ active = Branches
  /\ context["main"] = 2
  /\ context["fork"] = 0
  /\ Len(tokens["fork"]) > Len(tokens["main"])
  /\ Last(tokens["fork"]).kind = Dedent

literalScanners ==
  {"keyToken", "listMarkToken", "numberToken", "stringToken",
   "multilineStrings"}

\* the outcome of the literal tokenizer `name` at offset p in context ctx
literalScan(name, p, ctx) ==
  CASE name = "keyToken" -> keyToken(buf, p)
    [] name = "listMarkToken" -> listMarkToken(buf, p)
    [] name = "numberToken" -> numberToken(buf, p)
    [] name = "stringToken" -> stringToken(buf, p)
    [] name = "multilineStrings" -> multilineStrings(buf, p, ctx)

acceptors(p, ctx) ==
  {name \in literalScanners : literalScan(name, p, ctx).kind # Declined}

\* the contexts a tokenizer is asked with
probedContexts == {2 * k : k \in 0..MaxIndent}

\* branch s has not run a tokenizer yet
fresh(s) == tokens[s] = <<>> /\ tok[s] = NoToken

\* C10 as claimed: at no offset of a buffer and in no context do two of the
\* literal tokenizers accept.
C10_MutuallyExclusive ==
  \A s \in active :
    fresh(s) =>
      \A p \in 0..Len(buf) : \A ctx \in probedContexts :
        Cardinality(acceptors(p, ctx)) <= 1

\* C10 (amended): at most one literal tokenizer accepts at an offset, but
\* for stringToken and multilineStrings: wherever multilineStrings accepts a
\* BlockString, stringToken accepts the first two quotes as a String.
C10_ExclusiveButBlockString ==
  \A s \in active :
    fresh(s) =>
      \A p \in 0..Len(buf) : \A ctx \in probedContexts :
        LET both == {"stringToken", "multilineStrings"}
            accepting == acceptors(p, ctx)
        IN
        /\ Cardinality(accepting) <= 1 \/ accepting = both
        /\ accepting = both <=>
             multilineStrings(buf, p, ctx).kind = BlockString
        /\ accepting = both => stringToken(buf, p).end = p + 2

\* a BlockString was accepted where stringToken accepts too
C10_Witness ==
  /\ pending("main")
  /\ tok["main"].kind = BlockString
  /\ acceptors(pos["main"], context["main"])
       = {"stringToken", "multilineStrings"}

\* an opening fence followed by a line terminator starts at offset p
opensBlock(p) ==
  /\ peek(buf, p, 0) \in {QUOTE, BACKTICK}
  /\ peek(buf, p, 1) = peek(buf, p, 0)
  /\ peek(buf, p, 2) = peek(buf, p, 0)
  /\ isTerminator(peek(buf, p, 3))

\* the terminator at offset q is followed by blanks and three characters c
fenceLine(q, c) ==
  /\ isTerminator(peek(buf, q, 0))
  /\ \A i \in 1..3 : peek(buf, q, blanksAfter(q) + i) = c

\* the lines after the opening fence at p that hold the fence of the block
fenceLines(p) ==
  {q \in (p + 3)..(Len(buf) - 1) : fenceLine(q, peek(buf, p, 0))}

\* the fence lines at the column count ctx
closers(p, ctx) == {q \in fenceLines(p) : blanksAfter(q) = ctx}

Min(S) == CHOOSE q \in S : \A r \in S : q <= r

\* no backslash between the opening fence at p and offset q
plainBody(p, q) == \A i \in (p + 3)..q : peek(buf, i, 0) # BACKSLASH

blockType(p) == IF peek(buf, p, 0) = QUOTE THEN BlockString ELSE FoldedString

fenceOf(kind) == IF kind = BlockString THEN QUOTE ELSE BACKTICK

\* branch s holds an accepted multiline token
blockPending(s) ==
  pending(s) /\ tok[s].kind \in {BlockString, FoldedString}

\* the span from p to e is a block in context ctx: an opening fence of c, a
\* terminator, and at the end a terminator, ctx blanks and the fence of c
fencedSpan(p, e, c, ctx) ==
  /\ e >= p + 3 + 1 + ctx + 3
  /\ \A i \in 0..2 : peek(buf, p, i) = c
  /\ isTerminator(peek(buf, p, 3))
  /\ \A i \in 1..3 : peek(buf, e, 0 - i) = c
  /\ \A i \in 1..ctx : isBlank(peek(buf, e, 0 - 3 - i))
  /\ isTerminator(peek(buf, e, 0 - 3 - ctx - 1))

\* C12: a multiline token is accepted only for a span that begins with the
\* fence of its kind and a line terminator and ends with a terminator,
\* exactly `context` blanks and the same fence; and where no line after an
\* opening fence holds the fence at the context's column count, the input
\* ends without a close and the tokenizer declines, with no token at all.
C12_AcceptsOnlyFencedSpan ==
  \A s \in active :
    /\ blockPending(s) =>
         fencedSpan(tok[s].start, tok[s].end, fenceOf(tok[s].kind),
                    context[s])
    /\ LET r == multilineStrings(buf, pos[s], context[s]) IN
       IF opensBlock(pos[s]) /\ closers(pos[s], context[s]) # {}
       THEN r.kind \in {Declined, blockType(pos[s])}
       ELSE r.kind = Declined /\ r.end = pos[s]

\* a FoldedString with a body line was accepted in context 2
C12_Witness ==
  /\ blockPending("main")
  /\ tok["main"].kind = FoldedString
  /\ context["main"] = 2
  /\ tok["main"].end > tok["main"].start + 9

\* length of the sign at offset p
signLen(p) == IF peek(buf, p, 0) \in {PLUS, DASH} THEN 1 ELSE 0

\* the character that selects the base of a literal at offset p
baseLetter(p) == peek(buf, p, signLen(p) + 1)

\* a base prefix (after an optional sign) starts at offset p
basePrefixAt(p) ==
  /\ peek(buf, p, signLen(p)) = DIGIT_0
  /\ baseLetter(p) \in
       {LOWER_X, UPPER_X, LOWER_O, UPPER_O, LOWER_B, UPPER_B}

isHexMode(p) == baseLetter(p) \in {LOWER_X, UPPER_X}

\* the highest digit of the base selected at offset p
topDigit(p) ==
  IF baseLetter(p) \in {LOWER_O, UPPER_O} THEN DIGIT_7
  ELSE IF baseLetter(p) \in {LOWER_B, UPPER_B} THEN DIGIT_1
  ELSE DIGIT_9

\* c may stand in the digit run of the literal at offset p
inDigitRun(p, c) ==
  c = UNDERSCORE \/ (IF isHexMode(p) THEN isHex(c) ELSE isDigit(c))

\* c is a digit of the base selected at offset p
validDigit(p, c) ==
  IF isHexMode(p) THEN isHex(c) ELSE c >= DIGIT_0 /\ c <= topDigit(p)

\* offsets (relative to p) of the digit run after the base prefix at p
prefixedRun(p) ==
  LET k == signLen(p) + 2
      n == CHOOSE j \in 0..Len(buf) :
             /\ \A i \in 0..(j - 1) : inDigitRun(p, peek(buf, p, k + i))
             /\ ~inDigitRun(p, peek(buf, p, k + j))
  IN k..(k + n - 1)

\* C13: at a base prefix (0x, 0o, 0b, signed or not) whose digit run holds a
\* decimal digit that is no digit of the base, or holds no digit of the base
\* at all, numberToken declines: there is no Number token of any length.
C13_InvalidBaseDigitDeclines ==
  \A s \in active :
    LET p == pos[s]
        R == prefixedRun(p)
    IN
    (/\ basePrefixAt(p)
     /\ \/ \E i \in R : /\ isDigit(peek(buf, p, i))
                        /\ ~validDigit(p, peek(buf, p, i))
        \/ \A i \in R : ~validDigit(p, peek(buf, p, i)))
      => /\ numberToken(buf, p).kind = Declined
         /\ numberToken(buf, p).end = p

\* a tokenizer ran at an octal literal with a valid digit before a 9
C13_Witness ==
  LET p == pos["main"] IN
  /\ basePrefixAt(p)
  /\ baseLetter(p) = LOWER_O
  /\ peek(buf, p, signLen(p) + 2) = DIGIT_7
  /\ \E i \in prefixedRun(p) : peek(buf, p, i) = DIGIT_9
  /\ tok["main"].kind = Declined

\* branch s holds an accepted Number
numberPending(s) == pending(s) /\ tok[s].kind = NumberToken

\* the offset (relative to p) that ends the run of digits and underscores
\* starting at relative offset k
digitsEnd(p, k) ==
  k + (CHOOSE j \in 0..Len(buf) :
         /\ \A i \in 0..(j - 1) :
              isDigit(peek(buf, p, k + i)) \/ peek(buf, p, k + i) = UNDERSCORE
         /\ ~(isDigit(peek(buf, p, k + j))
                \/ peek(buf, p, k + j) = UNDERSCORE))

\* a decimal literal starts at offset p: a digit after the optional sign,
\* and no base prefix
decimalAt(p) == isDigit(peek(buf, p, signLen(p))) /\ ~basePrefixAt(p)

\* the offset (relative to p) that ends the mantissa of the decimal literal
\* at p: the integer run, and a dot with the fraction run where there is one
mantissaEnd(p) ==
  LET n1 == digitsEnd(p, signLen(p)) IN
  IF peek(buf, p, n1) # DOT THEN n1
  ELSE IF isDigit(peek(buf, p, n1 + 1)) THEN digitsEnd(p, n1 + 1)
  ELSE n1 + 1

\* the mantissa of the literal at p is followed by an exponent marker
exponentMarked(p) == peek(buf, p, mantissaEnd(p)) \in {LOWER_E, UPPER_E}

\* a digit follows the exponent marker and its optional sign
exponentDigit(p) ==
  LET k == mantissaEnd(p) + 1 IN
  isDigit(peek(buf, p, IF peek(buf, p, k) \in {PLUS, DASH} THEN k + 1 ELSE k))

\* C14: an accepted Number holds a digit; where no digit follows the optional
\* sign (a bare sign, a bare dot, a sign and a dot, nan, inf) numberToken
\* declines; and a decimal literal whose exponent marker is not followed by
\* an optional sign and a digit is declined as a whole, mantissa included.
C14_DecimalNeedsDigits ==
  \A s \in active :
    LET p == pos[s]
        r == numberToken(buf, p)
    IN
    /\ numberPending(s) =>
         \E i \in tok[s].start..(tok[s].end - 1) : isDigit(peek(buf, i, 0))
    /\ ~isDigit(peek(buf, p, signLen(p))) => r.kind = Declined /\ r.end = p
    /\ (decimalAt(p) /\ exponentMarked(p) /\ ~exponentDigit(p)) =>
         r.kind = Declined /\ r.end = p

\* a tokenizer ran at a mantissa with an exponent marker, a sign and no digit
C14_Witness ==
  LET p == pos["main"] IN
  /\ decimalAt(p)
  /\ exponentMarked(p)
  /\ peek(buf, p, mantissaEnd(p) + 1) = DASH
  /\ ~exponentDigit(p)
  /\ tok["main"].kind = Declined

\* c is a digit of the Number whose span starts at offset a
spanDigit(a, c) ==
  IF basePrefixAt(a) /\ isHexMode(a) THEN isHex(c) ELSE isDigit(c)

\* C15: in an accepted Number every underscore stands between two digits of
\* the span: none ends the span, follows the sign or the base prefix, or
\* stands next to a dot, an exponent marker or another underscore.
C15_UnderscoresBetweenDigits ==
  \A s \in active :
    numberPending(s) =>
      \A i \in tok[s].start..(tok[s].end - 1) :
        peek(buf, i, 0) = UNDERSCORE =>
          /\ i - 1 >= tok[s].start
          /\ i + 1 <= tok[s].end - 1
          /\ spanDigit(tok[s].start, peek(buf, i, 0 - 1))
          /\ spanDigit(tok[s].start, peek(buf, i, 1))

\* C17: listMarkToken accepts exactly at a dash that no digit follows (the
\* end of input included), a ListMark of length 1; at a dash before a digit
\* it declines and numberToken either accepts a Number that starts with the
\* dash or declines; so no ListMark is accepted where a Number is.
C17_ListMarkUnlessDigit ==
  \A s \in active :
    LET p == pos[s]
        l == listMarkToken(buf, p)
        n == numberToken(buf, p)
        dash == peek(buf, p, 0) = DASH
        digit == isDigit(peek(buf, p, 1))
    IN
    /\ IF dash /\ ~digit
       THEN l.kind = ListMark /\ l.end = p + 1
       ELSE l.kind = Declined /\ l.end = p
    /\ (dash /\ digit) =>
         \/ n.kind = NumberToken /\ n.end >= p + 2
         \/ n.kind = Declined /\ n.end = p
    /\ n.kind = NumberToken => l.kind = Declined
    /\ (pending(s) /\ tok[s].kind = ListMark) =>
         /\ tok[s].end = tok[s].start + 1
         /\ peek(buf, tok[s].start, 0) = DASH
         /\ ~isDigit(peek(buf, tok[s].start, 1))

\* a negative Number was accepted at a dash, where listMarkToken declines
C17_Witness ==
  /\ numberPending("main")
  /\ peek(buf, tok["main"].start, 0) = DASH
  /\ tok["main"].end >= tok["main"].start + 2
  /\ listMarkToken(buf, pos["main"]).kind = Declined

\* a letter, a digit, an underscore or a dash
keyChar(c) ==
  c \in (65..90) \cup (97..122) \cup (48..57) \cup {95, 45}

\* a letter or an underscore
keyStart(c) == c \in (65..90) \cup (97..122) \cup {95}

\* length of the maximal run of key characters at offset p
maximalRun(p) ==
  CHOOSE n \in 0..Len(buf) :
    /\ \A i \in 0..(n - 1) : keyChar(peek(buf, p, i))
    /\ ~keyChar(peek(buf, p, n))

\* true, false, null, nan, inf
keywords ==
  { <<116, 114, 117, 101>>, <<102, 97, 108, 115, 101>>,
    <<110, 117, 108, 108>>, <<110, 97, 110>>, <<105, 110, 102>> }

\* C16: keyToken accepts only at a letter or underscore, and then the
\* maximal run of letters, digits, underscores and dashes; it declines
\* exactly when that run is true, false, null, nan or inf, and accepts every
\* other run, one that begins with a reserved word included.
C16_KeyIsMaximalRun ==
  \A s \in active :
    LET p == pos[s]
        n == maximalRun(p)
        r == keyToken(buf, p)
    IN
    /\ IF keyStart(peek(buf, p, 0)) /\ slice(buf, p, n) \notin keywords
       THEN r.kind = Key /\ r.end = p + n
       ELSE r.kind = Declined /\ r.end = p
    /\ (pending(s) /\ tok[s].kind = Key) =>
         /\ keyStart(peek(buf, tok[s].start, 0))
         /\ tok[s].end = tok[s].start + maximalRun(tok[s].start)

\* a Key that begins with `true` and goes on was accepted
C16_Witness ==
  /\ pending("main")
  /\ tok["main"].kind = Key
  /\ slice(buf, tok["main"].start, 4) = <<116, 114, 117, 101>>
  /\ tok["main"].end > tok["main"].start + 4

\* the number of backslashes that stand, after the opening quote at p,
\* directly before offset i
backslashesBefore(p, i) ==
  CHOOSE k \in 0..Len(buf) :
    /\ \A j \in 1..k : i - j > p /\ peek(buf, i, 0 - j) = BACKSLASH
    /\ ~(i - k - 1 > p /\ peek(buf, i, 0 - k - 1) = BACKSLASH)

\* the backslash at offset i begins an escape of the literal opened at p: an
\* even number of backslashes stands before it
introduces(p, i) ==
  peek(buf, i, 0) = BACKSLASH /\ backslashesBefore(p, i) % 2 = 0

\* the quote at offset i is the second character of an escape
escapedQuote(p, i) ==
  peek(buf, i, 0) = QUOTE /\ i - 1 > p /\ introduces(p, i - 1)

\* the literal opened at p stops at i: a terminator, the end of input or a
\* quote that is not escaped
stops(p, i) ==
  \/ peek(buf, i, 0) \in {NEWLINE, CR, EOF}
  \/ peek(buf, i, 0) = QUOTE /\ ~escapedQuote(p, i)

\* the first offset at which the literal opened at p stops
stringStop(p) ==
  CHOOSE i \in (p + 1)..Len(buf) :
    stops(p, i) /\ \A j \in (p + 1)..(i - 1) : ~stops(p, j)

\* the escape that begins at offset i is none: a `u` without four hex digits
\* or a character that is no simple escape
badEscape(p, i) ==
  /\ introduces(p, i)
  /\ IF peek(buf, i, 1) = LOWER_U
     THEN \E k \in 2..5 : ~isHex(peek(buf, i, k))
     ELSE peek(buf, i, 1) \notin {34, 92, 47, 98, 102, 110, 114, 116}

\* an escape of the literal opened at p, before its stop, is none
hasBadEscape(p) == \E i \in (p + 1)..(stringStop(p) - 1) : badEscape(p, i)

\* branch s holds an accepted String
stringPending(s) == pending(s) /\ tok[s].kind = StringToken

\* C18: stringToken declines the whole literal when a line terminator or
\* the end of input comes before a closing quote, when a backslash is
\* followed by `u` without four hex digits, and when a backslash is followed
\* by a character outside the simple escapes; and an accepted String begins
\* and ends with a quote and holds no line terminator.
C18_MalformedStringDeclines ==
  \A s \in active :
    LET p == pos[s]
        r == stringToken(buf, p)
    IN
    /\ (peek(buf, p, 0) = QUOTE
          /\ (peek(buf, stringStop(p), 0) # QUOTE \/ hasBadEscape(p))) =>
         r.kind = Declined /\ r.end = p
    /\ stringPending(s) =>
         /\ tok[s].end >= tok[s].start + 2
         /\ peek(buf, tok[s].start, 0) = QUOTE
         /\ peek(buf, tok[s].end, 0 - 1) = QUOTE
         /\ \A i \in tok[s].start..(tok[s].end - 1) :
              ~isTerminator(peek(buf, i, 0))

\* a tokenizer ran at a literal with a closing quote whose unicode escape
\* has three hex digits
C18_Witness ==
  LET p == pos["main"] IN
  /\ peek(buf, p, 0) = QUOTE
  /\ peek(buf, stringStop(p), 0) = QUOTE
  /\ \E i \in (p + 1)..(stringStop(p) - 1) :
       /\ badEscape(p, i)
       /\ peek(buf, i, 1) = LOWER_U
       /\ \A k \in 2..4 : isHex(peek(buf, i, k))
  /\ tok["main"].kind = Declined

\* a literal of ordinary characters and escapes, closed by a quote, starts
\* at offset p
wellFormedString(p) ==
  /\ peek(buf, p, 0) = QUOTE
  /\ peek(buf, stringStop(p), 0) = QUOTE
  /\ ~hasBadEscape(p)

\* C20: at a literal of ordinary characters, simple escapes and unicode
\* escapes, stringToken accepts a String that ends with the first quote that
\* is not the second character of an escape: after an escaped backslash the
\* quote closes the string, after the backslash of an escaped quote it does
\* not.
C20_ClosesAtFirstUnescapedQuote ==
  \A s \in active :
    LET p == pos[s]
        r == stringToken(buf, p)
    IN
    wellFormedString(p) =>
      r.kind = StringToken /\ r.end = stringStop(p) + 1

\* the input `a::`, a line feed and `  b: 1`
twoLineEntry == entryUnderKey(<<COLON, COLON>>, NEWLINE, 2)

\* the `::` token of the two-line entry
isVectorIndicator(t) == t.kind = GrammarTerm /\ t.start = 1 /\ t.end = 3

\* C19 as claimed: tokenizing the two-line entry from context 0 gives, after
\* the `::` token, a Newline, then an Indent, then Key(b); and at the end of
\* input exactly one Dedent, after which the context is 0.
C19_NewlineThenIndent ==
  (buf = twoLineEntry /\ complete("main")) =>
    LET t == tokens["main"] IN
    /\ \E i \in 1..(Len(t) - 3) :
         /\ isVectorIndicator(t[i])
         /\ t[i + 1].kind = Newline
         /\ t[i + 2].kind = Indent
         /\ t[i + 3].kind = Key
    /\ Cardinality(eofTokens("main")) = 1
    /\ Last(t).kind = Dedent
    /\ context["main"] = 0

\* the tokens of the two-line entry, with the context after each
entryTokens ==
  << [kind |-> Key, start |-> 0, end |-> 1, context |-> 0],
     [kind |-> GrammarTerm, start |-> 1, end |-> 3, context |-> 0],
     [kind |-> Indent, start |-> 3, end |-> 6, context |-> 2],
     [kind |-> Key, start |-> 6, end |-> 7, context |-> 2],
     [kind |-> GrammarTerm, start |-> 7, end |-> 8, context |-> 2],
     [kind |-> GrammarTerm, start |-> 8, end |-> 9, context |-> 2],
     [kind |-> NumberToken, start |-> 9, end |-> 10, context |-> 2],
     [kind |-> Dedent, start |-> 10, end |-> 10, context |-> 0] >>

\* C19 (amended): tokenizing the two-line entry from context 0 gives Key(a),
\* `::`, one Indent that takes the terminator and the two blanks (no Newline
\* before it), Key(b), `:`, the blank, Number(1), and at the end of input
\* exactly one Dedent, after which the context is 0.
C19_IndentWithoutNewline ==
  buf = twoLineEntry =>
    /\ isPrefix(tokens["main"], entryTokens)
    /\ complete("main") => tokens["main"] = entryTokens
    /\ \A i \in DOMAIN tokens["main"] : tokens["main"][i].kind # Newline

\* the two-line entry was tokenized to its end
C19_Witness ==
  /\ buf = twoLineEntry
  /\ complete("main")
  /\ Len(tokens["main"]) = 8
  /\ tokens["main"][3].kind = Indent

\* the zero-width tokens branch s shifted at offset p
zeroWidthAt(s, p) ==
  {i \in DOMAIN tokens[s] :
     tokens[s][i].start = p /\ tokens[s][i].end = p}

\* branch s holds an accepted token that consumes nothing
zeroWidthPending(s) == pending(s) /\ tok[s].end = tok[s].start

\* the context with which branch s arrived at offset p: the context before
\* the first token it shifted there, or its context now
contextAt(s, p) ==
  LET here == {i \in DOMAIN tokens[s] : tokens[s][i].start = p} IN
  IF here = {} THEN context[s] ELSE contextBefore(s, Min(here))

\* C21: a token that consumes nothing is a Dedent, and at one offset a
\* branch is given at most context/2 of them, counted from the context it
\* arrived with: after that many the tokenizer consumes or declines. The
\* tokens of a branch at an offset are all given while it stands there, so
\* the count is taken at the offset where the branch stands, with the token
\* it holds.
C21_ZeroWidthBounded ==
  \A s \in active :
    /\ zeroWidthPending(s) => tok[s].kind = Dedent
    /\ tokens[s] # <<>> =>
         LET last == tokens[s][Len(tokens[s])] IN
         last.end = last.start => last.kind = Dedent
    /\ 2 * (Cardinality(zeroWidthAt(s, pos[s]))
             + (IF zeroWidthPending(s) THEN 1 ELSE 0))
         <= contextAt(s, pos[s])

\* two Dedents at the terminator of one line used up the context 4, and the
\* tokenizer then consumed the line's terminator
C21_Witness ==
  \E p \in 0..(Len(buf) - 1) :
    /\ Cardinality(zeroWidthAt("main", p)) = 2
    /\ contextAt("main", p) = 4
    /\ pending("main")
    /\ tok["main"].start = p
    /\ tok["main"].end > p

\* token i of branch s is an Indent or a Newline that took the terminator
\* and the blanks of a line that is not blank
tookLinePrefix(s, i) ==
  LET t == tokens[s][i] IN
  /\ t.kind \in {Indent, Newline}
  /\ isTerminator(peek(buf, t.start, 0))
  /\ afterBlanks(t.start) \notin {NEWLINE, CR, EOF}
  /\ t.end = t.start + 1 + blanksAfter(t.start)

\* C22 as claimed: once the tracker has consumed an Indent or a Newline that
\* took the blanks of a line, the context is the number of those blanks.
C22_ContextIsLeadingBlanks ==
  \A s \in active :
    \A i \in DOMAIN tokens[s] :
      tookLinePrefix(s, i) =>
        tokens[s][i].context = blanksAfter(tokens[s][i].start)

\* C22 (amended): after a Newline that took the blanks of a line the context
\* is the number of those blanks; after an Indent it is the context before
\* plus 2, whatever the number of blanks, which is more than the context
\* before: the two agree exactly for a line indented by one step. Stated of
\* the token the tracker consumed last, which every consumed token once was.
C22_ContextIsBlanksOrOneStep ==
  \A s \in active :
    \A i \in DOMAIN tokens[s] :
      i = Len(tokens[s]) /\ tookLinePrefix(s, i) =>
        LET t == tokens[s][i]
            spaces == blanksAfter(t.start)
            before == contextBefore(s, i)
        IN
        /\ t.kind = Newline => t.context = spaces /\ before = spaces
        /\ t.kind = Indent =>
             /\ t.context = before + 2
             /\ spaces > before
             /\ t.context = spaces <=> spaces = before + 2

\* an Indent took a line of three blanks and left the context at 2
C22_Witness ==
  \E i \in DOMAIN tokens["main"] :
    /\ tookLinePrefix("main", i)
    /\ tokens["main"][i].kind = Indent
    /\ blanksAfter(tokens["main"][i].start) = 3
    /\ tokens["main"][i].context = 2

\* the body characters the scan behind branch s's token went over
bodyScanned(s) == inputPos - (tok[s].start + 3)

\* from the opening fence at p the input holds at least n more characters
\* and no line with the fence
unclosedBody(p, n) ==
  opensBlock(p) /\ fenceLines(p) = {} /\ Len(buf) - (p + 3) >= n

\* C23: where the body after an opening fence holds the cap's number of
\* characters and no closing fence, the scan accepts a token of the fence's
\* kind in place of declining; and a scan that accepts goes over at most
\* one body character more than the cap.
C23_ScanBoundedByCap ==
  \A s \in active :
    /\ unclosedBody(pos[s], MaxBody) =>
         multilineScan(buf, pos[s], context[s], MaxBody).kind
           = blockType(pos[s])
    /\ blockPending(s) => bodyScanned(s) <= MaxBody + 1

\* the key of entry j, 0 where node j is no entry or its first node below is
\* no Key and no String
keyOf(j) ==
  IF /\ tree[j].name \in entryNames
     /\ j < Len(tree)
     /\ tree[j + 1].parent = j
     /\ tree[j + 1].name \in {Key, StringToken}
  THEN j + 1 ELSE 0

\* the text of the input under the key of entry j
keyText(j) ==
  [k \in 1..(tree[keyOf(j)].to - tree[keyOf(j)].from) |->
     buf[tree[keyOf(j)].from + k]]

\* entry j repeats the key of an earlier entry of the same container
repeatsKey(j) ==
  /\ keyOf(j) # 0
  /\ tree[j].parent # 0
  /\ tree[tree[j].parent].name \in containerNames
  /\ \E i \in 1..(j - 1) :
       /\ tree[i].parent = tree[j].parent
       /\ keyOf(i) # 0
       /\ keyText(i) = keyText(j)

\* the entries with a repeated key in the containers the walk has visited
repeatedKeys == {j \in 1..Len(tree) : repeatsKey(j) /\ tree[j].parent < cursor}

\* the error for the repeated key of entry j
duplicateKey(j) == [key |-> keyText(j), position |-> tree[keyOf(j)].from]

\* C24: the errors of validateTree are one 'Duplicate key' error for each
\* entry of a dictionary container whose key text is that of an earlier
\* entry of the same container, and no other error: equal keys of
\* different containers give none, and a tree without a repeated key gives
\* the empty list.
C24_OneErrorPerRepeatedKey ==
  /\ Len(errors) = Cardinality(repeatedKeys)
  /\ \A e \in {errors[k] : k \in DOMAIN errors}
               \cup {duplicateKey(j) : j \in repeatedKeys} :
       Cardinality({k \in DOMAIN errors : errors[k] = e})
         = Cardinality({j \in repeatedKeys : duplicateKey(j) = e})

\* the walk is over a tree with two repeated keys, and with one key text in
\* two entries of different containers that repeat nothing
C24_Witness ==
  /\ cursor > Len(tree)
  /\ Len(tree) > 0
  /\ Len(errors) = 2
  /\ \E i, j \in 1..Len(tree) :
       /\ keyOf(i) # 0 /\ keyOf(j) # 0
       /\ tree[i].parent # tree[j].parent
       /\ tree[tree[i].parent].name \in containerNames
       /\ tree[tree[j].parent].name \in containerNames
       /\ keyText(i) = keyText(j)
       /\ ~repeatsKey(i) /\ ~repeatsKey(j)

====
